---- MODULE Spec2Model ----
(***************************************************************************)
(* Current filament sets of pleiades (src/pleiades/current_sets.py):       *)
(* CurrentFilamentSet and its three concrete shapes ArbitraryPoints,       *)
(* RectangularCoil and MagnetRing, together with the Green's-function      *)
(* cache of the field solver that reads the instance's staleness flag.     *)
(*                                                                         *)
(* Numbers.  Lengths are integers; dr, dz and width are drawn even and     *)
(* height a multiple of 14, so that every division the code performs       *)
(* (dr*(nr-1)/2, width/2, linspace steps) is exact.  Angles are whole      *)
(* multiples of 90 degrees, for which cos and sin are 0, 1 or -1, so the   *)
(* rotations are computed exactly as real arithmetic computes them.        *)
(* current is a float that can become inf or nan: it is kept as a pair     *)
(* <<n, d>>, a reduced fraction when d > 0, +-inf as <<+-1, 0>> and nan as *)
(* <<0, 0>>.                                                               *)
(*                                                                         *)
(* Arrays.  The single-instance specifications keep an instance's arrays   *)
(* by value.  SpecShared keeps them by address in a memory, as numpy does, *)
(* to follow two instances built from the caller's same arrays.            *)
(***************************************************************************)
EXTENDS Integers, Sequences, FiniteSets, TLC

VARIABLES obj,        \* the filament set instance: its attributes
          greens,     \* the solver's Green's-function data (None until computed)
          answer,     \* the Green's-function data the last field query was served from
          fresh,      \* history: no mutating call since greens was computed
          supplied,   \* history: <<length of the weights the caller last supplied>>,
                      \* None if the caller never supplied any
          last,       \* history: the most recent call and its arguments
          before,     \* history: rz_pts before the most recent call, when it was rotate
          undo,       \* history: when the most recent call rotate(-a, p) came right after
                      \* rotate(a, p), the rz_pts before that first call
          raised,     \* the exception the most recent call raised, "" if none
          heap,       \* several instances: the arrays in memory, by address
          sets,       \* several instances: their attributes, arrays held by address
          actor       \* history: the instance the most recent call was made on

\* the state of the one instance the single-instance specifications follow
single == <<obj, greens, answer, fresh, supplied, last, before, undo, raised>>

\* the state of the instances that may hold the same arrays
several == <<heap, sets, actor>>

vars == <<obj, greens, answer, fresh, supplied, last, before, undo, raised,
          heap, sets, actor>>

---------------------------------------------------------------------------
(* Bounds of the model *)

\* |R|, |Z| of a centroid or of a stored point never exceeds MaxCoord
MaxCoord == 1
\* |angle|, |mu_hat| never exceeds MaxTurns quarter turns
MaxTurns == 2

---------------------------------------------------------------------------
(* Floats: <<n, d>> *)

Abs(x) == IF x < 0 THEN -x ELSE x

Sgn(x) == IF x < 0 THEN -1 ELSE IF x > 0 THEN 1 ELSE 0

RECURSIVE Gcd(_, _)
Gcd(a, b) == IF b = 0 THEN a ELSE Gcd(b, a % b)

\* the float n/d: nan for 0/0, +-inf for x/0
Float(n, d) ==
    IF d = 0 THEN <<Sgn(n), 0>>
    ELSE LET g == Gcd(Abs(n), Abs(d))
         IN  <<(Sgn(d) * n) \div g, Abs(d) \div g>>

FromInt(x) == <<x, 1>>

\* float * integer; inf * 0 and nan * x are nan
FloatTimes(f, x) == Float(f[1] * x, f[2])

IsFinite(f) == f[2] > 0

nan == <<0, 0>>

---------------------------------------------------------------------------
(* numpy helpers *)

RECURSIVE np_sum(_)
np_sum(w) == IF w = <<>> THEN 0 ELSE Head(w) + np_sum(Tail(w))

np_ones(n) == [i \in 1..n |-> 1]

\* np.linspace(lo, hi, n): n evenly spaced values, [lo] when n = 1
np_linspace(lo, hi, n) ==
    [i \in 1..n |-> IF n = 1 THEN lo ELSE lo + ((i - 1) * (hi - lo)) \div (n - 1)]

\* np.isclose(a, 0) with an absolute tolerance below 1, on whole degrees
np_isclose0(a) == a = 0

\* np.cos, np.sin of math.pi*angle/180 for angle a multiple of 90
np_cos(a) == CASE a % 360 = 0 -> 1 [] a % 360 = 180 -> -1 [] OTHER -> 0

np_sin(a) == CASE a % 360 = 90 -> 1 [] a % 360 = 270 -> -1 [] OTHER -> 0

\* row vector @ 2x2 matrix
MatMul(p, M) == <<p[1] * M[1][1] + p[2] * M[2][1], p[1] * M[1][2] + p[2] * M[2][2]>>

Plus(p, q) == <<p[1] + q[1], p[2] + q[2]>>

Minus(p, q) == <<p[1] - q[1], p[2] - q[2]>>

\* the rotation matrix the rotate methods build
RotationTypo(angle) ==
    LET c == np_cos(angle)
        s == np_sin(angle)
    IN  <<<<c, -s>>, <<c, s>>>>

RotationTransposed(angle) ==
    LET c == np_cos(angle)
        s == np_sin(angle)
    IN  <<<<c, s>>, <<-s, c>>>>

Rotation(angle) ==
    LET c == np_cos(angle)
        s == np_sin(angle)
    IN  <<<<c, -s>>, <<s, c>>>>

\* pleiades.transforms.rotate(pts, angle, pivot)
rotate(pts, angle, pivot) ==
    LET c == np_cos(angle)
        s == np_sin(angle)
        R == <<<<c, -s>>, <<s, c>>>>
    IN  [i \in 1..Len(pts) |-> Plus(MatMul(Minus(pts[i], pivot), R), pivot)]

\* cv.flag_greens_on_set: the decorated setter marks the Green's functions stale
flag_greens_on_set(o) == [o EXCEPT !.uptodate = FALSE]

---------------------------------------------------------------------------
(* Derived attributes *)

ARB == "ArbitraryPoints"
COIL == "RectangularCoil"
MAG == "MagnetRing"

centroid(o) == <<o.r0, o.z0>>

RectangularCoil_npts(o) == o.nr * o.nz

MagnetRing_npts(o) == Len(o.weights)

ArbitraryPoints_npts(o) == Len(o.rz)

npts(o) ==
    CASE o.kind = ARB -> ArbitraryPoints_npts(o)
      [] o.kind = COIL -> RectangularCoil_npts(o)
      [] o.kind = MAG -> MagnetRing_npts(o)

RectangularCoil_rz_pts(o) ==
    LET rl == o.r0 - (o.dr * (o.nr - 1)) \div 2
        ru == o.r0 + (o.dr * (o.nr - 1)) \div 2
        zl == o.z0 - (o.dz * (o.nz - 1)) \div 2
        zu == o.z0 + (o.dz * (o.nz - 1)) \div 2
        r == np_linspace(rl, ru, o.nr)
        z == np_linspace(zl, zu, o.nz)
        rz_pts == [k \in 1..(o.nr * o.nz) |->
                      <<r[((k - 1) \div o.nz) + 1], z[((k - 1) % o.nz) + 1]>>]
    IN  IF np_isclose0(o.angle) THEN rz_pts
        ELSE rotate(rz_pts, o.angle, <<o.r0, o.z0>>)

\* rz_pts[hnpts:, 0] = r0 + rspace broadcasts hnpts values into npts - hnpts rows
MagnetRing_rz_pts_raises(o) ==
    LET n == MagnetRing_npts(o)
        hnpts == n \div 2
    IN  /\ hnpts # n - hnpts
        /\ hnpts # 1

MagnetRing_rz_pts(o) ==
    LET n == MagnetRing_npts(o)
        hnpts == n \div 2
        hw == o.width \div 2
        hh == o.height \div 2
        zspace == np_linspace(-hh, hh, hnpts)
        rz_pts == [k \in 1..n |->
                      IF k <= hnpts
                      THEN <<o.r0 - hw, o.z0 + zspace[k]>>
                      ELSE <<o.r0 + hw,
                             o.z0 + zspace[IF hnpts = 1 THEN 1 ELSE k - hnpts]>>]
    IN  IF np_isclose0(o.mu_hat) THEN rz_pts
        ELSE rotate(rz_pts, o.mu_hat, <<o.r0, o.z0>>)

rz_pts_raises(o) == o.kind = MAG /\ MagnetRing_rz_pts_raises(o)

rz_pts(o) ==
    CASE o.kind = ARB -> o.rz
      [] o.kind = COIL -> RectangularCoil_rz_pts(o)
      [] o.kind = MAG -> MagnetRing_rz_pts(o)

\* rzw[:, 2] = self.weights broadcasts len(weights) values into npts rows
rzw_raises(o) ==
    \/ rz_pts_raises(o)
    \/ /\ Len(o.weights) # npts(o)
       /\ Len(o.weights) # 1

rzw(o) ==
    LET p == rz_pts(o)
    IN  [i \in 1..npts(o) |->
            <<p[i][1], p[i][2], o.weights[IF Len(o.weights) = 1 THEN 1 ELSE i]>>]

total_current(o) == FloatTimes(o.current, np_sum(o.weights))

---------------------------------------------------------------------------
(* CurrentFilamentSet: setters shared by the three shapes *)

current_setter_flagged(o, current) == [flag_greens_on_set(o) EXCEPT !.current = current]

current_setter(o, current) == [o EXCEPT !.current = current]

weights_setter(o, weights) == [flag_greens_on_set(o) EXCEPT !.weights = weights]

total_current_setter_len(o, T) == current_setter(o, Float(T, Len(o.weights)))

\* self.current = total_current / np.sum(self.weights)
total_current_setter(o, T) == current_setter(o, Float(T, np_sum(o.weights)))

---------------------------------------------------------------------------
(* ArbitraryPoints *)

ArbitraryPoints_translate_noflag(o, vector) ==
    [o EXCEPT !.rz = [i \in 1..Len(o.rz) |-> Plus(o.rz[i], vector)]]

ArbitraryPoints_translate(o, vector) ==
    [o EXCEPT !.rz = [i \in 1..Len(o.rz) |-> Plus(o.rz[i], vector)],
              !.uptodate = FALSE]

ArbitraryPoints_rotate_nopivot(o, angle, pivot) ==
    [o EXCEPT !.angle = @ + angle,
              !.rz = [i \in 1..Len(o.rz) |->
                         MatMul(Minus(o.rz[i], pivot), Rotation(angle))],
              !.uptodate = FALSE]

ArbitraryPoints_rotate(o, angle, pivot) ==
    [o EXCEPT !.angle = @ + angle,
              !.rz = [i \in 1..Len(o.rz) |->
                         Plus(MatMul(Minus(o.rz[i], pivot), Rotation(angle)), pivot)],
              !.uptodate = FALSE]

---------------------------------------------------------------------------
(* RectangularCoil *)

RectangularCoil_r0(o, r0) == [flag_greens_on_set(o) EXCEPT !.r0 = r0]

RectangularCoil_z0(o, z0) == [flag_greens_on_set(o) EXCEPT !.z0 = z0]

RectangularCoil_centroid(o, c) == [flag_greens_on_set(o) EXCEPT !.r0 = c[1], !.z0 = c[2]]

RectangularCoil_nr(o, nr) == [flag_greens_on_set(o) EXCEPT !.nr = nr]

RectangularCoil_nz(o, nz) == [flag_greens_on_set(o) EXCEPT !.nz = nz]

RectangularCoil_dr(o, dr) == [flag_greens_on_set(o) EXCEPT !.dr = dr]

RectangularCoil_dz(o, dz) == [flag_greens_on_set(o) EXCEPT !.dz = dz]

RectangularCoil_angle(o, angle) == [flag_greens_on_set(o) EXCEPT !.angle = angle]

\* self.centroid += np.array(vector)
RectangularCoil_translate(o, vector) ==
    RectangularCoil_centroid(o, Plus(centroid(o), vector))

RectangularCoil_rotate_noangle(o, angle, pivot) ==
    RectangularCoil_centroid(o, Plus(MatMul(Minus(centroid(o), pivot), Rotation(angle)), pivot))

RectangularCoil_rotate(o, angle, pivot) ==
    LET o1 == RectangularCoil_angle(o, o.angle + angle)
    IN  RectangularCoil_centroid(o1,
            Plus(MatMul(Minus(centroid(o1), pivot), Rotation(angle)), pivot))

---------------------------------------------------------------------------
(* MagnetRing *)

MagnetRing_r0(o, r0) == [flag_greens_on_set(o) EXCEPT !.r0 = r0]

MagnetRing_z0(o, z0) == [flag_greens_on_set(o) EXCEPT !.z0 = z0]

MagnetRing_centroid(o, c) == [flag_greens_on_set(o) EXCEPT !.r0 = c[1], !.z0 = c[2]]

MagnetRing_width(o, width) == [flag_greens_on_set(o) EXCEPT !.width = width]

MagnetRing_height(o, height) == [flag_greens_on_set(o) EXCEPT !.height = height]

MagnetRing_mu_hat(o, mu_hat) == [flag_greens_on_set(o) EXCEPT !.mu_hat = mu_hat]

MagnetRing_translate(o, vector) ==
    MagnetRing_centroid(o, Plus(centroid(o), vector))

MagnetRing_rotate(o, angle, pivot) ==
    LET o1 == MagnetRing_mu_hat(o, o.mu_hat + angle)
    IN  MagnetRing_centroid(o1,
            Plus(MatMul(Minus(centroid(o1), pivot), Rotation(angle)), pivot))

\* weights = np.ones(16); weights[:8] = -1.
MagnetRing_default_weights_short ==
    [i \in 1..8 |-> IF i <= 4 THEN -1 ELSE 1]

MagnetRing_default_weights_uneven ==
    [i \in 1..16 |-> IF i <= 7 THEN -1 ELSE 1]

MagnetRing_default_weights ==
    [i \in 1..16 |-> IF i <= 8 THEN -1 ELSE 1]

---------------------------------------------------------------------------
(* Construction *)

\* Python's None.  An argument that may be None is None or <<x>> for the value
\* x, so that weights=[] is <<<<>>>> and differs from weights=None.
None == <<>>

\* FieldsOperator.__init__: no Green's functions yet, so they are not up to date
FieldsOperator_init(o) == [o EXCEPT !.uptodate = FALSE]

CurrentFilamentSet_init(o, current, weights) ==
    FieldsOperator_init(
        [o EXCEPT !.current = current,
                  !.weights = IF weights = None THEN np_ones(npts(o)) ELSE weights[1]])

Blank(kind) ==
    [kind |-> kind, current |-> FromInt(1), weights |-> <<>>, uptodate |-> FALSE,
     rz |-> <<>>, angle |-> 0, r0 |-> 0, z0 |-> 0, nr |-> 1, nz |-> 1,
     dr |-> 0, dz |-> 0, width |-> 0, height |-> 0, mu_hat |-> 0]

ArbitraryPoints_init(pts, current, weights) ==
    CurrentFilamentSet_init([Blank(ARB) EXCEPT !.rz = pts, !.angle = 0],
                            current, weights)

RectangularCoil_init(r0, z0, nr, nz, dr, dz, angle, current, weights) ==
    CurrentFilamentSet_init(
        [Blank(COIL) EXCEPT !.r0 = r0, !.z0 = z0, !.nr = nr, !.nz = nz,
                            !.dr = dr, !.dz = dz, !.angle = angle],
        current, weights)

MagnetRing_init(r0, z0, width, height, mu_hat, current, weights) ==
    LET o5 == MagnetRing_mu_hat(MagnetRing_height(MagnetRing_width(
                  MagnetRing_z0(MagnetRing_r0(Blank(MAG), r0), z0), width), height), mu_hat)
    IN  CurrentFilamentSet_init(o5, current,
            IF weights = None THEN <<MagnetRing_default_weights>> ELSE weights)

---------------------------------------------------------------------------
(* Bounds on the explored states *)

CoordOk(p) == Abs(p[1]) <= MaxCoord /\ Abs(p[2]) <= MaxCoord

InBounds(o) ==
    /\ CoordOk(centroid(o))
    /\ \A i \in 1..Len(o.rz) : CoordOk(o.rz[i])
    /\ Abs(o.angle) <= 90 * MaxTurns
    /\ Abs(o.mu_hat) <= 90 * MaxTurns

---------------------------------------------------------------------------
(* Calls *)

Origin == <<0, 0>>

NoUndo == [on |-> FALSE, rz |-> <<>>]

\* a call that returned normally, leaving the instance as o
Returns(o, op, a, v, mutating) ==
    /\ obj' = o
    /\ last' = [op |-> op, a |-> a, v |-> v]
    /\ raised' = ""
    /\ fresh' = (fresh /\ ~mutating)
    /\ answer' = None
    /\ UNCHANGED greens
    /\ UNCHANGED several

\* a call that raised
Raises(exception, op) ==
    /\ raised' = exception
    /\ last' = [op |-> op, a |-> 0, v |-> Origin]
    /\ answer' = None
    /\ UNCHANGED <<obj, greens, fresh>>
    /\ UNCHANGED several

\* a geometry call that returned normally, within the explored bounds
Mutates(o, op) ==
    /\ InBounds(o)
    /\ Returns(o, op, 0, Origin, TRUE)
    /\ before' = <<>>
    /\ undo' = NoUndo
    /\ UNCHANGED supplied

\* the rz_pts a rotate call starts from
Snapshot(o) == IF rz_pts_raises(o) THEN <<>> ELSE <<rz_pts(o)>>

Rotates(o, angle, pivot) ==
    /\ InBounds(o)
    /\ Returns(o, "rotate", angle, pivot, TRUE)
    /\ before' = Snapshot(obj)
    /\ undo' = IF last.op = "rotate" /\ angle = -last.a /\ pivot = last.v
               THEN [on |-> TRUE, rz |-> before]
               ELSE NoUndo
    /\ UNCHANGED supplied

SetCurrent(c) ==
    /\ Returns(current_setter(obj, FromInt(c)), "current", c, Origin, FALSE)
    /\ before' = <<>>
    /\ undo' = NoUndo
    /\ UNCHANGED supplied

SetWeights(w) ==
    /\ Returns(weights_setter(obj, w), "weights", 0, Origin, TRUE)
    /\ before' = <<>>
    /\ undo' = NoUndo
    /\ supplied' = <<Len(w)>>

SetTotalCurrent(T) ==
    /\ Returns(total_current_setter(obj, T), "total_current", T, Origin, FALSE)
    /\ before' = <<>>
    /\ undo' = NoUndo
    /\ UNCHANGED supplied

\* r0, z0 = np.mean(self.rz_pts, axis=0); current = self.total_current; raise
Simplify ==
    /\ Raises(IF rz_pts_raises(obj) THEN "ValueError" ELSE "NotImplementedError",
              "simplify")
    /\ before' = <<>>
    /\ undo' = NoUndo
    /\ UNCHANGED supplied

Clone ==
    /\ Raises("NotImplementedError", "clone")
    /\ before' = <<>>
    /\ undo' = NoUndo
    /\ UNCHANGED supplied

ArbTranslate(v) ==
    /\ obj.kind = ARB
    /\ Mutates(ArbitraryPoints_translate(obj, v), "translate")

ArbRotate(a, p) ==
    /\ obj.kind = ARB
    /\ Rotates(ArbitraryPoints_rotate(obj, a, p), a, p)

CoilSetR0(x) ==
    /\ obj.kind = COIL
    /\ Mutates(RectangularCoil_r0(obj, x), "r0")

CoilSetZ0(x) ==
    /\ obj.kind = COIL
    /\ Mutates(RectangularCoil_z0(obj, x), "z0")

CoilSetCentroid(c) ==
    /\ obj.kind = COIL
    /\ Mutates(RectangularCoil_centroid(obj, c), "centroid")

CoilSetNr(n) ==
    /\ obj.kind = COIL
    /\ Mutates(RectangularCoil_nr(obj, n), "nr")

CoilSetNz(n) ==
    /\ obj.kind = COIL
    /\ Mutates(RectangularCoil_nz(obj, n), "nz")

CoilSetDr(d) ==
    /\ obj.kind = COIL
    /\ Mutates(RectangularCoil_dr(obj, d), "dr")

CoilSetDz(d) ==
    /\ obj.kind = COIL
    /\ Mutates(RectangularCoil_dz(obj, d), "dz")

CoilSetAngle(a) ==
    /\ obj.kind = COIL
    /\ Mutates(RectangularCoil_angle(obj, a), "angle")

CoilTranslate(v) ==
    /\ obj.kind = COIL
    /\ Mutates(RectangularCoil_translate(obj, v), "translate")

CoilRotate(a, p) ==
    /\ obj.kind = COIL
    /\ Rotates(RectangularCoil_rotate(obj, a, p), a, p)

MagSetR0(x) ==
    /\ obj.kind = MAG
    /\ Mutates(MagnetRing_r0(obj, x), "r0")

MagSetZ0(x) ==
    /\ obj.kind = MAG
    /\ Mutates(MagnetRing_z0(obj, x), "z0")

MagSetCentroid(c) ==
    /\ obj.kind = MAG
    /\ Mutates(MagnetRing_centroid(obj, c), "centroid")

MagSetWidth(w) ==
    /\ obj.kind = MAG
    /\ Mutates(MagnetRing_width(obj, w), "width")

MagSetHeight(h) ==
    /\ obj.kind = MAG
    /\ Mutates(MagnetRing_height(obj, h), "height")

MagSetMuHat(a) ==
    /\ obj.kind = MAG
    /\ Mutates(MagnetRing_mu_hat(obj, a), "mu_hat")

MagTranslate(v) ==
    /\ obj.kind = MAG
    /\ Mutates(MagnetRing_translate(obj, v), "translate")

MagRotate(a, p) ==
    /\ obj.kind = MAG
    /\ Rotates(MagnetRing_rotate(obj, a, p), a, p)

\* The field solver serving a query: it recomputes the Green's functions from the
\* current rzw when they are not up to date, marks them up to date, and answers
\* from them.
FieldQuery ==
    /\ last' = [op |-> "query", a |-> 0, v |-> Origin]
    /\ before' = <<>>
    /\ undo' = NoUndo
    /\ UNCHANGED supplied
    /\ UNCHANGED several
    /\ IF obj.uptodate
       THEN /\ answer' = greens
            /\ raised' = ""
            /\ UNCHANGED <<obj, greens, fresh>>
       ELSE IF rzw_raises(obj)
            THEN /\ raised' = "ValueError"
                 /\ answer' = None
                 /\ UNCHANGED <<obj, greens, fresh>>
            ELSE /\ greens' = <<rzw(obj)>>
                 /\ answer' = <<rzw(obj)>>
                 /\ obj' = [obj EXCEPT !.uptodate = TRUE]
                 /\ fresh' = TRUE
                 /\ raised' = ""

---------------------------------------------------------------------------
(* Specifications.  I names the sets the callers' arguments are drawn from. *)

\* the weights arguments a caller passes: None, or an array
WeightsArguments(I) == {None} \cup {<<w>> : w \in I.weights}

\* the instances a caller constructs, each with the length of the weights the
\* caller passed (None for weights=None)
Constructed(I) ==
    {[o |-> ArbitraryPoints_init(p, FromInt(c), w),
      n |-> IF w = None THEN None ELSE <<Len(w[1])>>] :
        p \in I.pts, c \in I.initial, w \in WeightsArguments(I)}
    \cup
    {[o |-> RectangularCoil_init(k[1], k[2], k[3], k[4], k[5], k[6], k[7], FromInt(c), w),
      n |-> IF w = None THEN None ELSE <<Len(w[1])>>] :
        k \in I.coils, c \in I.initial, w \in WeightsArguments(I)}
    \cup
    {[o |-> MagnetRing_init(k[1], k[2], k[3], k[4], k[5], FromInt(c), w),
      n |-> IF w = None THEN None ELSE <<Len(w[1])>>] :
        k \in I.rings, c \in I.initial, w \in WeightsArguments(I)}

InitWith(I) ==
    /\ \E k \in Constructed(I) :
          /\ InBounds(k.o)
          /\ obj = k.o
          /\ supplied = k.n
    /\ greens = None
    /\ answer = None
    /\ fresh = FALSE
    /\ last = [op |-> "init", a |-> 0, v |-> Origin]
    /\ before = <<>>
    /\ undo = NoUndo
    /\ raised = ""
    /\ heap = <<>>
    /\ sets = <<>>
    /\ actor = 0

Moves(I) ==
    \/ \E v \in I.vectors : ArbTranslate(v)
    \/ \E a \in I.turns, p \in I.pivots : ArbRotate(a, p)
    \/ \E v \in I.vectors : CoilTranslate(v)
    \/ \E a \in I.turns, p \in I.pivots : CoilRotate(a, p)
    \/ \E v \in I.vectors : MagTranslate(v)
    \/ \E a \in I.turns, p \in I.pivots : MagRotate(a, p)

Sets(I) ==
    \/ \E w \in I.weights : SetWeights(w)
    \/ \E x \in I.r0s : CoilSetR0(x)
    \/ \E x \in I.z0s : CoilSetZ0(x)
    \/ \E c \in I.centroids : CoilSetCentroid(c)
    \/ \E n \in I.nrs : CoilSetNr(n)
    \/ \E n \in I.nzs : CoilSetNz(n)
    \/ \E d \in I.drs : CoilSetDr(d)
    \/ \E d \in I.dzs : CoilSetDz(d)
    \/ \E a \in I.angles : CoilSetAngle(a)
    \/ \E x \in I.r0s : MagSetR0(x)
    \/ \E x \in I.z0s : MagSetZ0(x)
    \/ \E c \in I.centroids : MagSetCentroid(c)
    \/ \E w \in I.widths : MagSetWidth(w)
    \/ \E h \in I.heights : MagSetHeight(h)
    \/ \E a \in I.angles : MagSetMuHat(a)

Currents(I) ==
    \/ \E c \in I.currents : SetCurrent(c)
    \/ \E T \in I.totals : SetTotalCurrent(T)

Unimplemented ==
    \/ Simplify
    \/ Clone

\* every operation of a filament set, no solver attached
Inputs ==
    [pts       |-> {<<<<0, 0>>, <<1, 0>>>>},
     coils     |-> {<<1, 0, 1, 1, 2, 2, 0>>, <<0, 0, 2, 1, 2, 2, 90>>},
     rings     |-> {<<1, 0, 2, 14, 0>>},
     weights   |-> {<<>>, <<2, -1>>, <<1, 1, 1, 1, 1>>},
     initial   |-> {2},
     currents  |-> {2},
     totals    |-> {0, 3},
     r0s       |-> {0, 1},
     z0s       |-> {0, 1},
     centroids |-> {<<0, 0>>, <<1, 1>>},
     nrs       |-> {1, 2},
     nzs       |-> {1, 2},
     drs       |-> {2, 4},
     dzs       |-> {2, 4},
     angles    |-> {0, 90},
     widths    |-> {2, 4},
     heights   |-> {14, 28},
     vectors   |-> {<<1, 0>>, <<-1, 0>>},
     turns     |-> {90},
     pivots    |-> {<<1, 0>>}]

Init == InitWith(Inputs)

Next == Moves(Inputs) \/ Sets(Inputs) \/ Currents(Inputs) \/ Unimplemented

Spec == Init /\ [][Next]_vars

\* a filament set with the field solver attached
FlagInputs ==
    [pts       |-> {<<<<1, 0>>, <<1, 1>>>>},
     coils     |-> {<<1, 0, 1, 1, 2, 2, 0>>},
     rings     |-> {<<1, 0, 2, 14, 0>>},
     weights   |-> {<<2, -1>>},
     initial   |-> {1},
     currents  |-> {2},
     r0s       |-> {-1},
     z0s       |-> {1},
     centroids |-> {<<1, 1>>},
     nrs       |-> {2},
     nzs       |-> {2},
     drs       |-> {4},
     dzs       |-> {4},
     angles    |-> {90},
     widths    |-> {4},
     heights   |-> {28},
     vectors   |-> {<<-2, 0>>},
     turns     |-> {180},
     pivots    |-> {<<0, 0>>}]

InitFlag == InitWith(FlagInputs)

NextFlag ==
    \/ Moves(FlagInputs)
    \/ Sets(FlagInputs)
    \/ \E c \in FlagInputs.currents : SetCurrent(c)
    \/ FieldQuery

SpecFlag == InitFlag /\ [][NextFlag]_vars

\* the current of a filament set with the field solver attached
CurrentInputs ==
    [pts       |-> {<<<<1, 0>>, <<1, 1>>>>},
     coils     |-> {<<1, 0, 2, 1, 2, 2, 0>>},
     rings     |-> {<<1, 0, 2, 14, 0>>},
     weights   |-> {<<2, -1>>, <<1, -1>>, <<3, 3>>},
     initial   |-> {0, 1},
     currents  |-> {0, 2},
     totals    |-> {0, 3, -6}]

InitCurrent == InitWith(CurrentInputs)

NextCurrent ==
    \/ \E w \in CurrentInputs.weights : SetWeights(w)
    \/ Currents(CurrentInputs)
    \/ FieldQuery

SpecCurrent == InitCurrent /\ [][NextCurrent]_vars

\* rigid motions of a constructed filament set
QuarterTurns == {90, -90, 180, -180}

UnitVectors == {<<1, 0>>, <<-1, 0>>, <<0, 1>>, <<0, -1>>}

MotionInputs ==
    [pts       |-> {<<<<0, 0>>, <<1, 0>>>>, <<<<1, 0>>, <<1, 1>>, <<0, 0>>>>},
     coils     |-> {<<1, 0, 2, 2, 2, 4, 0>>, <<0, 0, 2, 1, 2, 2, 90>>,
                    <<0, 1, 1, 2, 2, 2, -90>>},
     rings     |-> {<<1, 0, 2, 14, 0>>, <<0, 0, 4, 14, 90>>},
     weights   |-> {<<2, -1, 1>>},
     initial   |-> {1},
     vectors   |-> UnitVectors,
     turns     |-> QuarterTurns,
     pivots    |-> {<<0, 0>>, <<1, 1>>, <<0, 1>>}]

InitMotion == InitWith(MotionInputs)

NextMotion == Moves(MotionInputs)

SpecMotion == InitMotion /\ [][NextMotion]_vars

---------------------------------------------------------------------------
(* Several instances in one memory.                                        *)
(* A numpy array is an object held by reference.  heap maps an address to  *)
(* the contents of the array at it (<<>> where nothing is allocated); an   *)
(* instance of sets holds its _rz_pts and _weights as addresses.  "a" and  *)
(* "w" are the arrays the caller made; an array an instance allocates is   *)
(* referenced by that instance alone, so each instance has one address of  *)
(* its own for the points it allocates and one for the weights.            *)

OwnRz == <<"rz1", "rz2">>

OwnWeights == <<"w1", "w2">>

Addresses == {"a", "w", "rz1", "rz2", "w1", "w2"}

\* the instances, by the order of their construction
Instances == DOMAIN OwnRz

\* an argument: the array at an address, or (at = "") a Python list of values
ByReference(at) == [at |-> at, val |-> <<>>]

ByValue(val) == [at |-> "", val |-> val]

\* np.asarray(x): x itself when x is an array, a new array otherwise
np_asarray(x, new) == IF x.at # "" THEN x.at ELSE new

\* memory h after np.asarray(x) with the address new free for a new array
Allocated(h, x, new) == IF x.at # "" THEN h ELSE [h EXCEPT ![new] = x.val]

\* the attributes of an instance r with its arrays read from memory h
Deref(h, r) ==
    [r EXCEPT !.rz = IF r.kind = ARB THEN h[r.rz] ELSE <<>>,
              !.weights = h[r.weights]]

\* the instance o, holding its arrays at the given addresses
Held(o, rzAt, weightsAt) == [o EXCEPT !.rz = rzAt, !.weights = weightsAt]

\* CurrentFilamentSet.__init__ in memory: weights (an address, "" for None) is
\* kept as passed, or np.ones(npts) is allocated
Weights_new(h, i, o, rzAt, weights) ==
    IF weights = ""
    THEN [heap |-> [h EXCEPT ![OwnWeights[i]] = o.weights],
          set |-> Held(o, rzAt, OwnWeights[i])]
    ELSE [heap |-> h, set |-> Held(o, rzAt, weights)]

\* ArbitraryPoints(rz_pts, weights=weights) as the i-th instance
ArbitraryPoints_new(h, i, pts, weights) ==
    LET at == np_asarray(pts, OwnRz[i])
        h1 == Allocated(h, pts, OwnRz[i])
        o  == ArbitraryPoints_init(h1[at], FromInt(1),
                                   IF weights = "" THEN None ELSE <<h1[weights]>>)
    IN  Weights_new(h1, i, o, at, weights)

\* RectangularCoil(r0, z0, nr, nz, dr, dz, angle, weights=weights) as the i-th instance
RectangularCoil_new(h, i, k, weights) ==
    LET o == RectangularCoil_init(k[1], k[2], k[3], k[4], k[5], k[6], k[7], FromInt(1),
                                  IF weights = "" THEN None ELSE <<h[weights]>>)
    IN  Weights_new(h, i, o, "", weights)

\* every array of points in memory, and every instance, within the explored bounds
HeapInBounds(h, ss) ==
    /\ \A i \in DOMAIN ss : InBounds(Deref(h, ss[i]))
    /\ \A i \in 1..Len(h["a"]) : CoordOk(h["a"][i])

\* a call on instance i that left memory as h and the instance as r
Acts(i, h, r) ==
    /\ HeapInBounds(h, [sets EXCEPT ![i] = r])
    /\ heap' = h
    /\ sets' = [sets EXCEPT ![i] = r]
    /\ actor' = i
    /\ UNCHANGED single

\* translate: ArbitraryPoints adds to its array in place (self._rz_pts += ...)
Translate(i, v) ==
    /\ sets[i].kind \in {ARB, COIL}
    /\ LET r == sets[i]
           o == Deref(heap, r)
       IN  IF r.kind = ARB
           THEN LET t == ArbitraryPoints_translate(o, v)
                IN  Acts(i, [heap EXCEPT ![r.rz] = t.rz], Held(t, r.rz, r.weights))
           ELSE Acts(i, heap, Held(RectangularCoil_translate(o, v), r.rz, r.weights))

\* rotate: ArbitraryPoints binds _rz_pts to the new array the product makes
Rotate(i, a, p) ==
    /\ sets[i].kind \in {ARB, COIL}
    /\ LET r == sets[i]
           o == Deref(heap, r)
       IN  IF r.kind = ARB
           THEN LET t == ArbitraryPoints_rotate(o, a, p)
                IN  Acts(i, [heap EXCEPT ![OwnRz[i]] = t.rz],
                         Held(t, OwnRz[i], r.weights))
           ELSE Acts(i, heap, Held(RectangularCoil_rotate(o, a, p), r.rz, r.weights))

\* weights = x: self._weights = np.asarray(x)
AssignWeights(i, x) ==
    /\ sets[i].kind \in {ARB, COIL}
    /\ LET r  == sets[i]
           at == np_asarray(x, OwnWeights[i])
           h  == Allocated(heap, x, OwnWeights[i])
           t  == weights_setter(Deref(heap, r), h[at])
       IN  Acts(i, h, Held(t, r.rz, at))

\* r0 = x on a RectangularCoil
AssignR0(i, x) ==
    /\ sets[i].kind = COIL
    /\ LET r == sets[i]
       IN  Acts(i, heap, Held(RectangularCoil_r0(Deref(heap, r), x), r.rz, r.weights))

\* the field solver serving a query on instance i: after it the Green's functions
\* of that instance are up to date
Query(i) ==
    /\ ~rzw_raises(Deref(heap, sets[i]))
    /\ Acts(i, heap, [sets[i] EXCEPT !.uptodate = TRUE])

SharedInputs ==
    [pts     |-> {<<<<1, 0>>, <<0, 1>>>>, <<<<0, 0>>, <<1, 1>>>>},
     weights |-> {<<2, -1>>},
     lists   |-> {<<1, 1>>},
     coils   |-> {<<0, 0, 2, 1, 2, 2, 0>>},
     r0s     |-> {1},
     vectors |-> {<<-1, 0>>},
     turns   |-> {90},
     pivots  |-> {<<0, 0>>}]

\* the caller makes an array of points a and an array of weights w, and builds
\* two sets: an ArbitraryPoints from a or from a list of the same points, then
\* another such ArbitraryPoints or a RectangularCoil, each with weights=w or
\* without weights
InitShared ==
    /\ \E a \in SharedInputs.pts, w \in SharedInputs.weights :
       \E rz1 \in {ByReference("a"), ByValue(a)},
          rz2 \in {ByReference("a"), ByValue(a)},
          weights1 \in {"", "w"}, weights2 \in {"", "w"},
          kind2 \in {ARB, COIL}, k \in SharedInputs.coils :
          LET h0  == [[at \in Addresses |-> <<>>] EXCEPT !["a"] = a, !["w"] = w]
              one == ArbitraryPoints_new(h0, 1, rz1, weights1)
              two == IF kind2 = ARB
                     THEN ArbitraryPoints_new(one.heap, 2, rz2, weights2)
                     ELSE RectangularCoil_new(one.heap, 2, k, weights2)
          IN  /\ kind2 = COIL => rz2 = ByReference("a")
              /\ heap = two.heap
              /\ sets = <<one.set, two.set>>
              /\ HeapInBounds(heap, sets)
    /\ actor = 0
    /\ obj = Blank(ARB)
    /\ greens = None
    /\ answer = None
    /\ fresh = FALSE
    /\ supplied = None
    /\ last = [op |-> "init", a |-> 0, v |-> Origin]
    /\ before = <<>>
    /\ undo = NoUndo
    /\ raised = ""

NextShared ==
    \/ \E i \in Instances, v \in SharedInputs.vectors : Translate(i, v)
    \/ \E i \in Instances, a \in SharedInputs.turns, p \in SharedInputs.pivots :
          Rotate(i, a, p)
    \/ \E i \in Instances,
          x \in {ByReference("w")} \cup {ByValue(l) : l \in SharedInputs.lists} :
          AssignWeights(i, x)
    \/ \E i \in Instances, x \in SharedInputs.r0s : AssignR0(i, x)
    \/ \E i \in Instances : Query(i)

SpecShared == InitShared /\ [][NextShared]_vars

---------------------------------------------------------------------------
(* Properties *)

MutatingOps ==
    {"weights", "r0", "z0", "centroid", "nr", "nz", "dr", "dz", "angle",
     "width", "height", "mu_hat", "translate", "rotate"}

\* C1: the solver never holds, and no field query is ever answered from,
\* Green's-function data computed before the most recent geometry- or
\* weight-affecting call: whenever the data counts as up to date, and whenever a
\* query has just been answered, the data is the rzw of the instance as it is
\* now and no mutating call came after it was computed.
C1_NoStaleAnswer ==
    /\ obj.uptodate => /\ fresh
                       /\ ~rzw_raises(obj)
                       /\ greens = <<rzw(obj)>>
    /\ (last.op = "query" /\ raised = "") => /\ fresh
                                             /\ ~rzw_raises(obj)
                                             /\ answer = <<rzw(obj)>>

\* C1 witness: a coil whose nr, nz, dr, dz and angle were all reassigned and that
\* was moved has just had a field query answered from its cached data.
C1_Witness ==
    /\ obj.kind = COIL
    /\ obj.nr = 2 /\ obj.nz = 2 /\ obj.dr = 4 /\ obj.dz = 4 /\ obj.angle = 90
    /\ centroid(obj) = <<-1, -1>>
    /\ last.op = "query" /\ raised = ""
    /\ answer = greens

\* C2: every geometry- or weight-affecting call leaves the staleness flag set
\* (the data not up to date), and assigning current leaves the flag as it was.
C2_MutationsFlagCurrentDoesNot ==
    [][/\ last'.op \in MutatingOps => ~obj'.uptodate
       /\ last'.op = "current" => obj'.uptodate = obj.uptodate]_vars

\* C2 witness: current was just assigned on an instance whose data was up to
\* date, and it still is.
C2_Witness ==
    /\ last.op = "current"
    /\ obj.current = FromInt(2)
    /\ obj.uptodate

\* C3: len(weights) == npts and rz_pts has npts rows, after construction and
\* after every mutation; stated for the sets whose caller never supplied
\* weights, so that the code alone decides how many there are.
C3_WeightsMatchNpts ==
    supplied = None =>
        /\ Len(obj.weights) = npts(obj)
        /\ ~rz_pts_raises(obj) => Len(rz_pts(obj)) = npts(obj)

\* C4 as claimed: a MagnetRing has npts == 16 in every reachable state.
C4_RingHas16 == obj.kind = MAG => npts(obj) = 16

\* C4 amended: a MagnetRing has as many filaments as the weights last supplied
\* by the caller, and 16 as long as none were supplied: npts is 16 after
\* construction without weights and stays 16 through parameter setters,
\* translate and rotate.
C4_RingNptsFollowsWeights ==
    obj.kind = MAG => npts(obj) = IF supplied = None THEN 16 ELSE supplied[1]

\* C4 witness: a ring built without weights, resized and then rotated, has 16
\* filaments.
C4_Witness ==
    /\ obj.kind = MAG
    /\ supplied = None
    /\ obj.width = 4 /\ obj.height = 28
    /\ last.op = "rotate"
    /\ npts(obj) = 16

\* C5: rotate(a, pivot=p) followed by rotate(-a, pivot=p) restores rz_pts,
\* filament by filament.
C5_RotateRoundTrip == undo.on => Snapshot(obj) = undo.rz

\* C5 witness: a four-filament coil was rotated about a pivot off its centroid,
\* which moved its filaments, and rotated back.
C5_Witness ==
    /\ undo.on
    /\ obj.kind = COIL
    /\ npts(obj) = 4
    /\ last.v # centroid(obj)
    /\ before # undo.rz
    /\ before # <<>>

SqDist(p, q) == (p[1] - q[1]) * (p[1] - q[1]) + (p[2] - q[2]) * (p[2] - q[2])

\* the squared distance between every pair of filaments
Distances(o) ==
    IF rz_pts_raises(o) THEN <<>>
    ELSE LET p == rz_pts(o)
         IN  [i \in 1..Len(p) |-> [j \in 1..Len(p) |-> SqDist(p[i], p[j])]]

\* C6: translate and rotate leave npts and the distance between every pair of
\* filaments (i, j) unchanged.
C6_Rigid ==
    [][last'.op \in {"translate", "rotate"} =>
          /\ npts(obj') = npts(obj)
          /\ Distances(obj') = Distances(obj)]_vars

\* C6 witness: three arbitrary points, not collinear, have been rotated about a
\* pivot that is none of them.
C6_Witness ==
    /\ obj.kind = ARB
    /\ npts(obj) = 3
    /\ last.op = "rotate"
    /\ last.v = <<0, 1>>
    /\ before # <<>>
    /\ before # Snapshot(obj)

\* what a total_current assignment may change: current alone
OnlyCurrentChanges ==
    /\ obj' = [obj EXCEPT !.current = obj'.current]
    /\ greens' = greens
    /\ supplied' = supplied

\* C7 as claimed: assigning total_current = T changes current alone, and
\* total_current then reads back as T.
C7_TotalCurrentReadsBack ==
    [][last'.op = "total_current" =>
          /\ OnlyCurrentChanges
          /\ total_current(obj') = FromInt(last'.a)]_vars

\* C7 amended: assigning total_current = T changes current alone (weights,
\* geometry and the staleness flag are unchanged); total_current then reads back
\* as T when sum(weights) is not zero, and as nan when sum(weights) is zero,
\* where the division leaves current infinite or nan.
C7_TotalCurrentReadsBackUnlessZeroSum ==
    [][last'.op = "total_current" =>
          /\ OnlyCurrentChanges
          /\ np_sum(obj.weights) # 0 => total_current(obj') = FromInt(last'.a)
          /\ np_sum(obj.weights) = 0 => /\ ~IsFinite(obj'.current)
                                        /\ total_current(obj') = nan]_vars

\* C7 witness: total_current = 3 was assigned on a set whose up-to-date weights
\* sum to 6, leaving current 1/2.
C7_Witness ==
    /\ last.op = "total_current"
    /\ last.a = 3
    /\ np_sum(obj.weights) = 6
    /\ obj.current = <<1, 2>>
    /\ obj.uptodate

\* C8: simplify() and clone() fail with NotImplementedError and nothing else.
C8_AlwaysNotImplemented ==
    last.op \in {"simplify", "clone"} => raised = "NotImplementedError"

\* C9 as claimed: a MagnetRing built without weights has weights -1 on
\* filaments 0..7 and +1 on 8..15, they sum to 0, and total_current is 0 for
\* every value of current.
C9_DefaultRingNoNetCurrent ==
    (obj.kind = MAG /\ supplied = None) =>
        /\ obj.weights = [i \in 1..16 |-> IF i <= 8 THEN -1 ELSE 1]
        /\ np_sum(obj.weights) = 0
        /\ total_current(obj) = FromInt(0)

\* C9 amended: a MagnetRing built without weights has weights -1 on filaments
\* 0..7 and +1 on 8..15, they sum to 0, and total_current is 0 for every finite
\* current; it is nan when current is infinite or nan.
C9_DefaultRingNoNetCurrentIfFinite ==
    (obj.kind = MAG /\ supplied = None) =>
        /\ obj.weights = [i \in 1..16 |-> IF i <= 8 THEN -1 ELSE 1]
        /\ np_sum(obj.weights) = 0
        /\ total_current(obj) = IF IsFinite(obj.current) THEN FromInt(0) ELSE nan

\* C9 witness: a ring built without weights carries current 2 and no net
\* current.
C9_Witness ==
    /\ obj.kind = MAG
    /\ supplied = None
    /\ last.op = "current"
    /\ obj.current = FromInt(2)
    /\ total_current(obj) = FromInt(0)

\* pts turned about pivot by angle, in the sense the rotate methods turn the
\* centroid
TurnedAbout(pts, angle, pivot) ==
    [i \in 1..Len(pts) |-> Plus(MatMul(Minus(pts[i], pivot), Rotation(angle)), pivot)]

\* C10: after rotate(a, pivot=p) on a RectangularCoil or MagnetRing, filament i
\* of the regenerated rz_pts is filament i of the rz_pts before the call, turned
\* about p by a in the sense in which the centroid was turned.
C10_RotateMatchesRegeneration ==
    [][(last'.op = "rotate" /\ obj.kind \in {COIL, MAG} /\ ~rz_pts_raises(obj)) =>
          /\ ~rz_pts_raises(obj')
          /\ rz_pts(obj') = TurnedAbout(rz_pts(obj), last'.a, last'.v)]_vars

\* C10 witness: a ring already turned a quarter was rotated about a pivot off
\* its centroid.
C10_Witness ==
    /\ obj.kind = MAG
    /\ last.op = "rotate"
    /\ last.a = 90
    /\ obj.mu_hat = 180
    /\ last.v # centroid(obj)
    /\ before # Snapshot(obj)
    /\ before # <<>>

\* what a caller sees of instance j
Shown(j) ==
    LET o == Deref(heap, sets[j])
    IN  [pts |-> rz_pts(o), weights |-> o.weights, uptodate |-> o.uptodate]

\* the arrays the caller made
CallerArrays == <<heap["a"], heap["w"]>>

\* C11: a call on one filament set (translate, rotate, weights or parameter
\* assignment, or the solver's query) never changes the rz_pts, the weights or
\* the staleness flag of another instance, nor the arrays the caller passed in,
\* also when instances were built from the same arrays; and the geometry of no
\* instance changes while its staleness flag stays clear.
C11_InstancesIsolated ==
    [][/\ \A j \in DOMAIN sets : j # actor' => Shown(j)' = Shown(j)
       /\ CallerArrays' = CallerArrays
       /\ \A j \in DOMAIN sets :
             (sets[j].uptodate /\ sets'[j].uptodate) => Shown(j)'.pts = Shown(j).pts
      ]_vars

====
